---- MODULE Spec2Model ----
(***************************************************************************)
(* A state-machine model of lib/taco-team-build/taco-team-build.js: the    *)
(* Cordova version resolution / cache engine (configure, setupCordova,     *)
(* getCordova) and the build / package orchestrators (buildProject,        *)
(* addPlatformsToProject, packageProject, createIpa, getCallArgs).         *)
(*                                                                         *)
(* JavaScript values are modelled as strings (paths, versions, commands,   *)
(* handles) and sequences of strings (option lists); the JavaScript value  *)
(* undefined is the string Undefined.  The file system is the set of       *)
(* existing directories, the set of loadable module directories and the    *)
(* contents of the few files the code reads.  One asynchronous operation   *)
(* is in flight at a time; every suspension point of the code (exec, glob, *)
(* a toolchain call) is a position of pc, and the action that completes it *)
(* runs the callbacks up to the next suspension point.                     *)
(***************************************************************************)
EXTENDS Integers, Sequences, FiniteSets, TLC

\* ------------------------------------------------------------ bounds
\* Longest platform list passed to buildProject / packageProject.
MaxPlatforms == 2
\* Number of top-level calls (configure, setupCordova, buildProject,
\* packageProject) made in one run of the process.
MaxCalls == 4

\* ------------------------------------------------------------ JS values
Undefined == "undefined"

\* ------------------------------------------------------------ constants (lines 14-22)
DEFAULT_CORDOVA_VERSION == "5.1.1"
SUPPORT_PLUGIN_ID == "cordova-plugin-vs-taco-support"
SUPPORT_PLUGIN == "/lib/taco-team-build/cordova-plugin-vs-taco-support"
CORDOVA_LIB == "cordova-lib"
CORDOVA == "cordova"

\* ------------------------------------------------------------ semver
\* The version strings of the model, parsed as semver parses them:
\* <<major, minor, patch, release>>, release = 0 for a prerelease tag
\* (a prerelease orders below the release of the same triple).
Versions == {"3.6.3", "3.7.0", "5.1.1"}
IosVersions == {"3.8.0", "3.9.0", "4.0.0"}

SemverParse(v) ==
    CASE v = "3.6.3" -> <<3, 6, 3, 1>>
      [] v = "3.7.0-rc.1" -> <<3, 7, 0, 0>>
      [] v = "3.7.0" -> <<3, 7, 0, 1>>
      [] v = "3.8.0" -> <<3, 8, 0, 1>>
      [] v = "3.9.0" -> <<3, 9, 0, 1>>
      [] v = "4.0.0" -> <<4, 0, 0, 1>>
      [] v = "5.1.1" -> <<5, 1, 1, 1>>

RECURSIVE TupleLt(_, _, _)
TupleLt(a, b, i) ==
    IF i > Len(a) THEN FALSE
    ELSE IF a[i] < b[i] THEN TRUE
    ELSE IF a[i] > b[i] THEN FALSE
    ELSE TupleLt(a, b, i + 1)

\* semver.lt(a, b)
SemverLt(a, b) == TupleLt(SemverParse(a), SemverParse(b), 1)

\* ------------------------------------------------------------ path
\* path.join of two segments; every path of the model is absolute and
\* normalised, so path.resolve returns its argument.
PathJoin(a, b) == a \o "/" \o b
PathResolve(p) == p

\* ------------------------------------------------------------ JS truthiness
\* A string is falsy exactly when it is empty; undefined is falsy.
Truthy(s) == s # "" /\ s # Undefined
BoolStr(b) == IF b THEN "true" ELSE "false"

\* ------------------------------------------------------------ option lists and args
\* A JavaScript option list that may be undefined.
Opts(list) == [def |-> TRUE, list |-> list]
UndefOpts == [def |-> FALSE, list |-> <<>>]

Platforms == {"android", "ios"}

\* The args parameter of buildProject / packageProject: undefined, a flat
\* array of options, or an object mapping platform names to option lists
\* (a platform the object has no key for maps to undefined).
ArgsUndefined == [type |-> "undefined", list |-> <<>>, map |-> [p \in Platforms |-> UndefOpts]]
ArgsArray(list) == [type |-> "array", list |-> list, map |-> [p \in Platforms |-> UndefOpts]]
ArgsObject(m) == [type |-> "object", list |-> <<>>, map |-> m]

\* getCallArgs that hands the args value on as the options whatever its type
\* (an object has no list of its own).
getCallArgsNoLookup(platform, args) ==
    [platforms |-> <<platform>>, options |-> Opts(args.list)]

\* getCallArgs(platforms, args) for a single platform string (lines 221-235):
\* args || [] first, then the flat array itself or args[platform].
getCallArgs(platform, args) ==
    LET a == IF args.type = "undefined" THEN ArgsArray(<<>>) ELSE args
    IN  [platforms |-> <<platform>>,
         options |-> IF a.type = "array" THEN Opts(a.list) ELSE a.map[platform]]

\* ------------------------------------------------------------ state
VARIABLES
    \* module globals (lines 26-31)
    cordovaCache, defaultCordovaVersion, projectPath,
    cordovaVersion, loadedCordovaVersion, cdv,
    \* the file system: existing directories, loadable module directories,
    \* taco.json per project, platforms/ios/CordovaLib/VERSION per project,
    \* the device .app bundles per project
    dirs, modules, tacoJson, iosVersionFile, deviceApps,
    \* the process: working directory, and process.env (CORDOVA_DEFAULT_VERSION,
    \* CORDOVA_HOME, PLUGMAN_HOME)
    cwd, env,
    \* the operation in flight: which exported function was called, where it
    \* is suspended, its arguments, the promise chain still to run, the
    \* call in flight, and how the returned promise (or the call) ended
    op, pc, cordovaPlatforms, args, chain, inflight, result, value,
    \* history: the events of the current top-level call, the number of
    \* install commands run per version directory, the top-level calls made
    log, installs, calls

globals == <<cordovaCache, defaultCordovaVersion, projectPath,
             cordovaVersion, loadedCordovaVersion, cdv>>
disk == <<dirs, modules, tacoJson, iosVersionFile, deviceApps>>
process == <<cwd, env>>
task == <<op, pc, cordovaPlatforms, args, chain, inflight, result, value>>
history == <<log, installs, calls>>
vars == <<globals, disk, process, task, history>>

\* ------------------------------------------------------------ the environment
CacheA == "/cacheA"
CacheB == "/cacheB"
ProjA == "/projA"
ProjB == "/projB"
Missing == "/missing"
Caches == {CacheA, CacheB}
Projects == {ProjA, ProjB}

\* taco.json (a parsable JSON object when it exists): absent, an object
\* without 'cordova-cli', or an object whose 'cordova-cli' is a version.
Absent == "absent"
NoField == "nofield"

\* The package the code loads for a version (line 203).
PackageOf(v) == IF SemverLt(v, "3.7.0") THEN CORDOVA ELSE CORDOVA_LIB

VersionDir(c, v) == PathResolve(PathJoin(c, v))
NodeModules(c, v) == PathJoin(VersionDir(c, v), "node_modules")
ModuleDir(c, v, pkg) == PathJoin(PathJoin(PathJoin(c, v), "node_modules"), pkg)
PluginDir(p) == PathJoin(PathJoin(p, "plugins"), SUPPORT_PLUGIN_ID)
PlatformDir(p, platform) == PathJoin(PathJoin(p, "platforms"), platform)

\* A version directory with the package the code will load installed in it.
CompleteEntry(c, v) == {VersionDir(c, v), NodeModules(c, v)}

\* ------------------------------------------------------------ synchronous code
\* The synchronous parts of the code run on a record of the values they
\* read and write; out says how the run ended: "run" (still running),
\* "throw" (an exception left the function), "resolved" (a promise resolved
\* with field value was returned), "exec" / "plugin" (a promise pending on
\* the install command / the support-plugin call was returned).
Cur ==
    [cordovaCache |-> cordovaCache, projectPath |-> projectPath,
     cordovaVersion |-> cordovaVersion,
     loadedCordovaVersion |-> loadedCordovaVersion, cdv |-> cdv,
     dirs |-> dirs, modules |-> modules, cwd |-> cwd, env |-> env,
     out |-> "run", value |-> Undefined, cmd |-> "", cmdCwd |-> ""]

\* The configuration objects: every field may be undefined.  NoObj is a
\* call without an argument.
NoObj == [given |-> FALSE, cordovaCache |-> Undefined,
          cordovaVersion |-> Undefined, projectPath |-> Undefined]
Obj(c, v, p) == [given |-> TRUE, cordovaCache |-> c,
                 cordovaVersion |-> v, projectPath |-> p]

\* configure without the check of lines 38-40.
configureNoCheck(st, obj) ==
    LET s1 == IF obj.cordovaCache # Undefined
              THEN [st EXCEPT !.cordovaCache = obj.cordovaCache] ELSE st
        s2 == IF obj.cordovaVersion # Undefined
              THEN [s1 EXCEPT !.cordovaVersion = obj.cordovaVersion] ELSE s1
    IN  IF obj.projectPath # Undefined
        THEN [s2 EXCEPT !.projectPath = PathResolve(obj.projectPath)] ELSE s2

\* configure(obj), lines 34-41: the three assignments, then the check.
configure(st, obj) ==
    LET s1 == IF obj.cordovaCache # Undefined
              THEN [st EXCEPT !.cordovaCache = obj.cordovaCache] ELSE st
        s2 == IF obj.cordovaVersion # Undefined
              THEN [s1 EXCEPT !.cordovaVersion = obj.cordovaVersion] ELSE s1
        s3 == IF obj.projectPath # Undefined
              THEN [s2 EXCEPT !.projectPath = PathResolve(obj.projectPath)] ELSE s2
    IN  IF s3.projectPath \notin s3.dirs THEN [s3 EXCEPT !.out = "throw"] ELSE s3

\* require(<module directory>) followed by the unwrap of lines 204-206:
\* cordova-lib exports an object with a cordova property, the legacy
\* cordova package exports the handle itself.
Handle(c, v, pkg) ==
    IF pkg = CORDOVA_LIB THEN ModuleDir(c, v, pkg) \o ".cordova"
    ELSE ModuleDir(c, v, pkg)

\* getCordova that sets the two environment variables only while they are
\* unset.
getCordovaKeepsEnv(st) ==
    IF st.cdv = Undefined \/ st.loadedCordovaVersion # st.cordovaVersion
    THEN
        LET s1 == [st EXCEPT !.loadedCordovaVersion = st.cordovaVersion]
            s2 == [s1 EXCEPT !.cwd = st.projectPath,
                             !.env.CORDOVA_HOME =
                                 IF Truthy(st.env.CORDOVA_HOME) THEN @
                                 ELSE PathJoin(st.cordovaCache, "_cordova"),
                             !.env.PLUGMAN_HOME =
                                 IF Truthy(st.env.PLUGMAN_HOME) THEN @
                                 ELSE PathJoin(st.cordovaCache, "_plugman")]
            pkg == PackageOf(st.cordovaVersion)
            s3 == [s2 EXCEPT !.cdv = Handle(st.cordovaCache, st.cordovaVersion, pkg)]
        IN  IF st.projectPath \notin st.dirs THEN [s1 EXCEPT !.out = "throw"]
            ELSE IF ModuleDir(st.cordovaCache, st.cordovaVersion, pkg) \notin st.modules
                 THEN [s2 EXCEPT !.out = "throw"]
            ELSE IF PluginDir(st.projectPath) \notin st.dirs
                 THEN [s3 EXCEPT !.out = "plugin"]
            ELSE [s3 EXCEPT !.out = "resolved", !.value = s3.cdv]
    ELSE [st EXCEPT !.out = "resolved", !.value = st.cdv]

\* getCordova(), lines 196-218.
getCordova(st) ==
    IF st.cdv = Undefined \/ st.loadedCordovaVersion # st.cordovaVersion
    THEN
        LET s1 == [st EXCEPT !.loadedCordovaVersion = st.cordovaVersion]
            \* process.chdir throws when the directory does not exist
            s2 == [s1 EXCEPT !.cwd = st.projectPath,
                             !.env.CORDOVA_HOME = PathJoin(st.cordovaCache, "_cordova"),
                             !.env.PLUGMAN_HOME = PathJoin(st.cordovaCache, "_plugman")]
            pkg == PackageOf(st.cordovaVersion)
            s3 == [s2 EXCEPT !.cdv = Handle(st.cordovaCache, st.cordovaVersion, pkg)]
        IN  IF st.projectPath \notin st.dirs THEN [s1 EXCEPT !.out = "throw"]
            ELSE IF ModuleDir(st.cordovaCache, st.cordovaVersion, pkg) \notin st.modules
                 THEN [s2 EXCEPT !.out = "throw"]
            ELSE IF PluginDir(st.projectPath) \notin st.dirs
                 THEN [s3 EXCEPT !.out = "plugin"]
            ELSE [s3 EXCEPT !.out = "resolved", !.value = s3.cdv]
    ELSE [st EXCEPT !.out = "resolved", !.value = st.cdv]

\* The command string of lines 81-83, evaluated with JavaScript's operator
\* precedence: + binds tighter than ?:, so the condition of the conditional
\* is the string "npm install " + <boolean> and its else branch is
\* CORDOVA_LIB + "@" + cordovaVersion.
InstallCommand(v) ==
    IF Truthy("npm install " \o BoolStr(SemverLt(v, "3.7.0")))
    THEN CORDOVA
    ELSE CORDOVA_LIB \o "@" \o v

\* Lines 55-64: the version when none is set.
ResolveVersion(st) ==
    IF st.cordovaVersion # Undefined THEN st
    ELSE IF tacoJson[st.projectPath] # Absent
         THEN IF tacoJson[st.projectPath] = NoField
              THEN [st EXCEPT !.cordovaVersion = Undefined]
              ELSE [st EXCEPT !.cordovaVersion = tacoJson[st.projectPath]]
         ELSE [st EXCEPT !.cordovaVersion = defaultCordovaVersion]

\* An install that runs whether or not the version directory exists.
EnsureInstalledAlways(st) ==
    LET s1 == IF st.cordovaCache \notin st.dirs
              THEN [st EXCEPT !.dirs = st.dirs \cup {st.cordovaCache}] ELSE st
        cordovaModulePath == VersionDir(s1.cordovaCache, s1.cordovaVersion)
    IN  IF s1.cordovaVersion = Undefined THEN [s1 EXCEPT !.out = "throw"]
        ELSE [s1 EXCEPT !.dirs = s1.dirs \cup {cordovaModulePath,
                                    PathJoin(cordovaModulePath, "node_modules")},
                        !.out = "exec",
                        !.cmd = InstallCommand(s1.cordovaVersion),
                        !.cmdCwd = cordovaModulePath]

\* A cache check that takes a version for installed when its module
\* directory exists, not when its version directory exists.
EnsureInstalledChecksModule(st) ==
    LET s1 == IF st.cordovaCache \notin st.dirs
              THEN [st EXCEPT !.dirs = st.dirs \cup {st.cordovaCache}] ELSE st
        cordovaModulePath == VersionDir(s1.cordovaCache, s1.cordovaVersion)
    IN  IF s1.cordovaVersion = Undefined THEN [s1 EXCEPT !.out = "throw"]
        ELSE IF ModuleDir(s1.cordovaCache, s1.cordovaVersion,
                          PackageOf(s1.cordovaVersion)) \notin s1.modules
             THEN [s1 EXCEPT !.dirs = s1.dirs \cup {cordovaModulePath,
                                         PathJoin(cordovaModulePath, "node_modules")},
                             !.out = "exec",
                             !.cmd = InstallCommand(s1.cordovaVersion),
                             !.cmdCwd = cordovaModulePath]
             ELSE getCordova(s1)

\* Lines 66-89: the cache directory, the version directory, the install
\* command or the load.
EnsureInstalled(st) ==
    LET s1 == IF st.cordovaCache \notin st.dirs
              THEN [st EXCEPT !.dirs = st.dirs \cup {st.cordovaCache}] ELSE st
        cordovaModulePath == VersionDir(s1.cordovaCache, s1.cordovaVersion)
    IN  \* path.join throws a TypeError on an undefined segment
        IF s1.cordovaVersion = Undefined THEN [s1 EXCEPT !.out = "throw"]
        ELSE IF cordovaModulePath \notin s1.dirs
             THEN [s1 EXCEPT !.dirs = s1.dirs \cup {cordovaModulePath,
                                         PathJoin(cordovaModulePath, "node_modules")},
                             !.out = "exec",
                             !.cmd = InstallCommand(s1.cordovaVersion),
                             !.cmdCwd = cordovaModulePath]
             ELSE getCordova(s1)

\* setupCordova without the early return of lines 51-53.
setupCordovaNoShortcut(st, obj) ==
    LET s1 == IF obj.given THEN configure(st, obj) ELSE st
        s2 == ResolveVersion(s1)
    IN  IF s1.out = "throw" THEN s1
        ELSE IF s2.out = "throw" THEN s2
        ELSE EnsureInstalled(s2)

\* setupCordova(obj), lines 45-90.
setupCordova(st, obj) ==
    LET s1 == IF obj.given THEN configure(st, obj) ELSE st
        s2 == ResolveVersion(s1)
    IN  IF s1.out = "throw" THEN s1
        ELSE IF Truthy(s1.cdv) /\ s1.cordovaVersion = s1.loadedCordovaVersion
             THEN [s1 EXCEPT !.out = "resolved", !.value = s1.cdv]
        ELSE IF s2.out = "throw" THEN s2
        ELSE EnsureInstalled(s2)

\* ------------------------------------------------------------ events
\* One entry of the event log: kind is "issue", "ok", "fail" or "skip";
\* call is "exec", "plugin", "platformAdd", "build", "glob" or "xcrun".
Event(kind, call, target, where, platforms, options) ==
    [kind |-> kind, call |-> call, target |-> target, where |-> where,
     platforms |-> platforms, options |-> options]
NoCall == Event("none", "none", "", "", <<>>, UndefOpts)

AllVersionDirs == {VersionDir(c, v) : c \in Caches, v \in Versions}

\* What running a command in directory where leaves on disk when it
\* succeeds: "npm install <package>@<version>" puts the package under
\* where/node_modules; any other command installs nothing.
ExecInstalls(cmd, where) ==
    {PathJoin(PathJoin(where, "node_modules"), pkg) :
        pkg \in {k \in {CORDOVA, CORDOVA_LIB} :
                    \E v \in Versions : cmd = "npm install " \o k \o "@" \o v}}

\* ------------------------------------------------------------ committing
\* The assignments a synchronous run made to the globals, the disk and
\* the process.
Commit(st) ==
    /\ cordovaCache' = st.cordovaCache
    /\ projectPath' = st.projectPath
    /\ cordovaVersion' = st.cordovaVersion
    /\ loadedCordovaVersion' = st.loadedCordovaVersion
    /\ cdv' = st.cdv
    /\ dirs' = st.dirs
    /\ modules' = st.modules
    /\ cwd' = st.cwd
    /\ env' = st.env
    /\ UNCHANGED <<defaultCordovaVersion, tacoJson, iosVersionFile, deviceApps>>

\* How the promise of setupCordova stands after a run of its code: sync
\* says whether the run was the call itself (an exception is thrown to the
\* caller) or a promise callback (an exception rejects the promise).  A
\* resolved setupCordova is the end of a setupCordova call, and for
\* buildProject / packageProject schedules the callback of lines 98 / 133.
AfterSetup(o, st, sync, lg) ==
    /\ op' = o
    /\ chain' = <<>>
    /\ CASE st.out = "throw" ->
              /\ pc' = "idle"
              /\ result' = IF sync THEN "thrown" ELSE "rejected"
              /\ value' = Undefined
              /\ inflight' = NoCall
              /\ log' = lg
              /\ installs' = installs
         [] st.out = "resolved" ->
              /\ pc' = IF o = "setup" THEN "idle" ELSE "then"
              /\ result' = IF o = "setup" THEN "resolved" ELSE "pending"
              /\ value' = st.value
              /\ inflight' = NoCall
              /\ log' = lg
              /\ installs' = installs
         [] st.out = "exec" ->
              /\ pc' = "install"
              /\ result' = "pending"
              /\ value' = Undefined
              /\ inflight' = Event("issue", "exec", st.cmd, st.cmdCwd, <<>>, UndefOpts)
              /\ log' = Append(lg, Event("issue", "exec", st.cmd, st.cmdCwd, <<>>, UndefOpts))
              /\ installs' = [installs EXCEPT ![st.cmdCwd] = @ + 1]
         [] st.out = "plugin" ->
              /\ pc' = "plugin"
              /\ result' = "pending"
              /\ value' = Undefined
              /\ inflight' = Event("issue", "plugin", SUPPORT_PLUGIN, st.cwd, <<>>, UndefOpts)
              /\ log' = Append(lg, Event("issue", "plugin", SUPPORT_PLUGIN, st.cwd, <<>>, UndefOpts))
              /\ installs' = installs

\* ------------------------------------------------------------ actions: configuration and setup
\* A top-level call can be made when no operation is in flight.
CanCall == pc = "idle" /\ calls < MaxCalls

\* module.exports.configure(obj)
Configure(objs) ==
    \E obj \in objs :
        LET st == configure(Cur, obj)
        IN  /\ CanCall
            /\ Commit(st)
            /\ op' = "configure"
            /\ pc' = "idle"
            /\ result' = IF st.out = "throw" THEN "thrown" ELSE "returned"
            /\ value' = Undefined
            /\ log' = <<>>
            /\ calls' = calls + 1
            /\ UNCHANGED <<cordovaPlatforms, args, chain, inflight, installs>>

\* module.exports.setupCordova(obj)
SetupCordovaCall(objs) ==
    \E obj \in objs :
        LET st == setupCordova(Cur, obj)
        IN  /\ CanCall
            /\ Commit(st)
            /\ AfterSetup("setup", st, TRUE, <<>>)
            /\ calls' = calls + 1
            /\ UNCHANGED <<cordovaPlatforms, args>>

\* An install whose callbacks run on failure as on success.
InstallDoneIgnoresFailure ==
    /\ pc = "install"
    /\ \E ok \in BOOLEAN :
        LET onDisk == IF ok
                      THEN [Cur EXCEPT !.modules =
                                modules \cup ExecInstalls(inflight.target, inflight.where)]
                      ELSE Cur
            st == getCordova(onDisk)
        IN  /\ Commit(st)
            /\ AfterSetup(op, st, FALSE,
                          Append(log, [inflight EXCEPT !.kind = IF ok THEN "ok" ELSE "fail"]))
    /\ UNCHANGED <<cordovaPlatforms, args, calls>>

\* The install command ends (lines 84-85): on success handleExecReturn,
\* then getCordova; on failure the promise is rejected.
InstallDone ==
    /\ pc = "install"
    /\ \E ok \in BOOLEAN :
        IF ok
        THEN LET onDisk == [Cur EXCEPT !.modules =
                                modules \cup ExecInstalls(inflight.target, inflight.where)]
                 st == getCordova(onDisk)
             IN  /\ Commit(st)
                 /\ AfterSetup(op, st, FALSE,
                               Append(log, [inflight EXCEPT !.kind = "ok"]))
        ELSE /\ pc' = "idle"
             /\ result' = "rejected"
             /\ inflight' = NoCall
             /\ log' = Append(log, [inflight EXCEPT !.kind = "fail"])
             /\ UNCHANGED <<globals, disk, process, op, chain, value, installs>>
    /\ UNCHANGED <<cordovaPlatforms, args, calls>>

\* The support-plugin call ends (line 210): on success the plugin is in the
\* project the toolchain ran in and the promise resolves with cdv.
PluginDone ==
    /\ pc = "plugin"
    /\ \E ok \in BOOLEAN :
        IF ok
        THEN LET st == [Cur EXCEPT !.dirs = dirs \cup {PluginDir(cwd)},
                                   !.out = "resolved", !.value = cdv]
             IN  /\ Commit(st)
                 /\ AfterSetup(op, st, FALSE,
                               Append(log, [inflight EXCEPT !.kind = "ok"]))
        ELSE /\ pc' = "idle"
             /\ result' = "rejected"
             /\ inflight' = NoCall
             /\ log' = Append(log, [inflight EXCEPT !.kind = "fail"])
             /\ UNCHANGED <<globals, disk, process, op, chain, value, installs>>
    /\ UNCHANGED <<cordovaPlatforms, args, calls>>

\* ------------------------------------------------------------ initial states
\* The version directories a cache holds when the process starts: nothing
\* (not even the cache directory), an empty cache, every version installed,
\* or 5.1.1 installed and 3.7.0 left behind by an interrupted install.
Installed(c, v) ==
    [dirs |-> {c} \cup CompleteEntry(c, v), modules |-> {ModuleDir(c, v, PackageOf(v))}]
NoCache == [dirs |-> {}, modules |-> {}]
EmptyCache == [dirs |-> {CacheA}, modules |-> {}]
FullCache ==
    [dirs |-> UNION {Installed(CacheA, v).dirs : v \in Versions},
     modules |-> UNION {Installed(CacheA, v).modules : v \in Versions}]
PartialCache ==
    [dirs |-> Installed(CacheA, "5.1.1").dirs \cup CompleteEntry(CacheA, "3.7.0"),
     modules |-> Installed(CacheA, "5.1.1").modules]
CacheScenarios == {NoCache, EmptyCache, FullCache, PartialCache}

\* The contents of platforms/ios/CordovaLib/VERSION: a version and a newline.
VersionFile(v) == v \o "\n"

\* The state after the module is loaded (lines 26-31), in an environment
\* drawn from the given sets: the cache on disk, taco.json of the working
\* directory's project, CORDOVA_DEFAULT_VERSION, whether the support plugin
\* is in that project, its registered platforms, its iOS VERSION file and
\* its device .app bundles.
InitIn(scens, tacos, envDefaults, plugs, platSets, iosFiles, appSets) ==
    \E scen \in scens, taco \in tacos, envDefault \in envDefaults,
       plug \in plugs, plats \in platSets, iosFile \in iosFiles, apps \in appSets :
        /\ cordovaCache = CacheA
        /\ defaultCordovaVersion =
               IF Truthy(envDefault) THEN envDefault ELSE DEFAULT_CORDOVA_VERSION
        /\ projectPath = ProjA
        /\ cordovaVersion = Undefined
        /\ loadedCordovaVersion = Undefined
        /\ cdv = Undefined
        /\ dirs = Projects \cup scen.dirs
                    \cup (IF plug THEN {PluginDir(ProjA)} ELSE {})
                    \cup {PlatformDir(ProjA, pl) : pl \in plats}
        /\ modules = scen.modules
        /\ tacoJson = [pr \in Projects \cup {Missing} |->
                          IF pr = ProjA THEN taco ELSE Absent]
        /\ iosVersionFile = [pr \in Projects \cup {Missing} |->
                                IF pr = ProjA THEN iosFile ELSE Absent]
        /\ deviceApps = [pr \in Projects \cup {Missing} |->
                            IF pr = ProjA THEN apps ELSE {}]
        /\ cwd = ProjA
        /\ env = [CORDOVA_DEFAULT_VERSION |-> envDefault,
                  CORDOVA_HOME |-> Undefined, PLUGMAN_HOME |-> Undefined]
        /\ op = "none"
        /\ pc = "idle"
        /\ cordovaPlatforms = <<>>
        /\ args = ArgsUndefined
        /\ chain = <<>>
        /\ inflight = NoCall
        /\ result = "none"
        /\ value = Undefined
        /\ log = <<>>
        /\ installs = [d \in AllVersionDirs |-> 0]
        /\ calls = 0

\* ------------------------------------------------------------ configuration and setup alone
SetupObjs ==
    {Obj(c, v, p) : c \in {Undefined}, v \in {Undefined} \cup Versions,
                    p \in {Undefined, ProjB}}

InitSetup ==
    InitIn(CacheScenarios, {Absent, NoField, "3.6.3"},
           {Undefined, "3.7.0"}, BOOLEAN, {{}}, {Absent}, {{}})

NextSetup ==
    \/ Configure(SetupObjs)
    \/ SetupCordovaCall({NoObj})
    \/ InstallDone
    \/ PluginDone

SpecSetup == InitSetup /\ [][NextSetup]_vars

\* ------------------------------------------------------------ overlapping calls
\* module.exports.setupCordova() is called while the install command of an
\* earlier call is still running (exec, line 81, has not called back yet).
\* The call sees on disk what the command has written so far, which is any
\* part of what it installs.  Its outcome is logged as an "overlap" event;
\* the earlier call stays suspended on its command.
SetupCordovaDuringInstall ==
    \E written \in SUBSET ExecInstalls(inflight.target, inflight.where) :
        LET st == setupCordova([Cur EXCEPT !.modules = modules \cup written], NoObj)
        IN  /\ pc = "install"
            /\ calls < MaxCalls
            /\ Commit(st)
            /\ log' = Append(log, Event("overlap", "setup", st.out,
                                        PathJoin(st.cordovaCache, st.cordovaVersion),
                                        <<>>, UndefOpts))
            /\ installs' = IF st.out = "exec"
                           THEN [installs EXCEPT ![st.cmdCwd] = @ + 1] ELSE installs
            /\ calls' = calls + 1
            /\ UNCHANGED task

InitRace ==
    InitIn({EmptyCache, PartialCache}, {Absent, "3.6.3"}, {Undefined, "3.7.0"},
           BOOLEAN, {{}}, {Absent}, {{}})

NextRace ==
    \/ Configure(SetupObjs)
    \/ SetupCordovaCall({NoObj})
    \/ SetupCordovaDuringInstall
    \/ InstallDone
    \/ PluginDone

SpecRace == InitRace /\ [][NextRace]_vars

\* ------------------------------------------------------------ reconfiguration
\* Configuration objects that change the cache directory, the version and
\* the project, also to a project directory that does not exist.
ConfigObjs ==
    {Obj(c, v, p) : c \in {Undefined, CacheB}, v \in {Undefined, "3.7.0", "5.1.1"},
                    p \in {Undefined, ProjB, Missing}}
MissingObjs == {o \in ConfigObjs : o.projectPath = Missing}

\* Every version installed in the first cache and 5.1.1 in the second.
BothCaches ==
    [dirs |-> FullCache.dirs \cup Installed(CacheB, "5.1.1").dirs,
     modules |-> FullCache.modules \cup Installed(CacheB, "5.1.1").modules]

InitConfig ==
    InitIn({EmptyCache, FullCache, BothCaches}, {Absent}, {Undefined}, BOOLEAN,
           {{}}, {Absent}, {{}})

\* setupCordova is called without options or with options that name the
\* nonexistent project.
NextConfig ==
    \/ Configure(ConfigObjs)
    \/ SetupCordovaCall({NoObj})
    \/ SetupCordovaCall(MissingObjs)
    \/ InstallDone
    \/ PluginDone

SpecConfig == InitConfig /\ [][NextConfig]_vars

\* ------------------------------------------------------------ promise chains
\* The inputs of buildProject / packageProject: a platform string is
\* normalised to a one-element list (lines 94-96, 129-131).
RECURSIVE SeqsUpTo(_, _)
SeqsUpTo(S, n) ==
    IF n = 0 THEN {<<>>}
    ELSE SeqsUpTo(S, n - 1) \cup
         {Append(q, x) : q \in {r \in SeqsUpTo(S, n - 1) : Len(r) = n - 1}, x \in S}

PlatformLists == SeqsUpTo(Platforms, MaxPlatforms)

ArgsValues ==
    {ArgsUndefined, ArgsArray(<<"--release">>),
     ArgsObject([p \in Platforms |->
                    IF p = "ios" THEN Opts(<<"--device", "--sign">>) ELSE UndefOpts])}

\* One callback of a promise chain: a toolchain call for a platform, or the
\* createIpa call of line 137 with its actual parameters.  status is
\* "queued" (not run yet), "call" / "glob" / "xcrun" (suspended on the
\* toolchain call, the glob, the packaging command), "skipped" (createIpa
\* logged its skip warning and returned from the glob callback), "ok" or
\* "fail"; ev is the call it is suspended on; val is the value a createIpa
\* step's promise is fulfilled with ("none" while it is not fulfilled).
Step(call, platform, actuals) ==
    [call |-> call, platform |-> platform, actuals |-> actuals,
     status |-> "queued", ev |-> NoCall, val |-> "none"]

\* A chain whose callbacks run on rejection as well as on fulfilment.
ReadyWhenSettled(ch, i) ==
    IF i = 1 THEN TRUE ELSE ch[i - 1].status \in {"ok", "fail"}

\* promise = promise.then(callback) (lines 103, 119, 137): the callback of
\* step i runs once the promise before it is fulfilled, which for the first
\* step is the already-resolved Q() / Q(cordova).
Ready(ch, i) == IF i = 1 THEN TRUE ELSE ch[i - 1].status = "ok"

\* The promise at the end of the chain, which buildProject / packageProject
\* return: fulfilled with the last step, rejected as soon as a step fails
\* (the rejection passes through the callbacks after it).
ChainResult(ch) ==
    IF \E i \in DOMAIN ch : ch[i].status = "fail" THEN "rejected"
    ELSE IF \A i \in DOMAIN ch : ch[i].status = "ok" THEN "resolved"
    ELSE "pending"

\* The chain after a step changed.
SetChain(ch) ==
    /\ chain' = ch
    /\ result' = ChainResult(ch)
    /\ pc' = IF ChainResult(ch) = "pending" THEN "chain" ELSE "idle"

\* ------------------------------------------------------------ actions: build
\* The platforms of a list the project has no platforms/<p> directory for,
\* in order (lines 117-123).
RECURSIVE Unregistered(_, _)
Unregistered(st, platforms) ==
    IF platforms = <<>> THEN <<>>
    ELSE IF PlatformDir(st.projectPath, Head(platforms)) \notin st.dirs
         THEN <<Head(platforms)>> \o Unregistered(st, Tail(platforms))
         ELSE Unregistered(st, Tail(platforms))

\* addPlatformsToProject (lines 115-125): the chain of 'platform add' calls.
addPlatformsToProject(st, platforms) ==
    [i \in 1..Len(Unregistered(st, platforms)) |->
        Step("platformAdd", Unregistered(st, platforms)[i], <<>>)]

\* A build chain started on a fresh promise, with the registration chain
\* chained behind it.
BuildChainBuildsFirst(st, platforms) ==
    [i \in 1..Len(platforms) |-> Step("build", platforms[i], <<>>)]
        \o addPlatformsToProject(st, platforms)

\* The callback of lines 98-111: the registration chain, then one build
\* step per platform.
BuildChain(st, platforms) ==
    addPlatformsToProject(st, platforms)
        \o [i \in 1..Len(platforms) |-> Step("build", platforms[i], <<>>)]

\* The events of a chain-building callback that skips platforms.
RECURSIVE SkipEvents(_, _, _)
SkipEvents(call, platforms, skipped) ==
    IF platforms = <<>> THEN <<>>
    ELSE (IF skipped[Head(platforms)]
          THEN <<Event("skip", call, Head(platforms), "", <<>>, UndefOpts)>>
          ELSE <<>>) \o SkipEvents(call, Tail(platforms), skipped)

\* module.exports.buildProject(cordovaPlatforms, args), lines 93-98: the
\* call of setupCordova().
BuildProjectCall ==
    \E platforms \in PlatformLists, a \in ArgsValues :
        LET st == setupCordova(Cur, NoObj)
        IN  /\ CanCall
            /\ Commit(st)
            /\ AfterSetup("build", st, TRUE, <<>>)
            /\ cordovaPlatforms' = platforms
            /\ args' = a
            /\ calls' = calls + 1

\* The callback of buildProject (lines 98-111) builds the whole chain.
BuildThen ==
    /\ pc = "then"
    /\ op = "build"
    /\ SetChain(BuildChain(Cur, cordovaPlatforms))
    /\ log' = log \o SkipEvents("platformAdd", cordovaPlatforms,
                        [p \in Platforms |-> PlatformDir(projectPath, p) \in dirs])
    /\ UNCHANGED <<globals, disk, process, op, cordovaPlatforms, args, inflight,
                   value, installs, calls>>

\* cordova.raw.platform('add', platform) is called (line 119).
PlatformAddIssue ==
    \E i \in DOMAIN chain :
        /\ chain[i].status = "queued"
        /\ chain[i].call = "platformAdd"
        /\ Ready(chain, i)
        /\ LET ev == Event("issue", "platformAdd", chain[i].platform, cwd, <<>>, UndefOpts)
           IN  /\ SetChain([chain EXCEPT ![i].status = "call", ![i].ev = ev])
               /\ log' = Append(log, ev)
        /\ UNCHANGED <<globals, disk, process, op, cordovaPlatforms, args, inflight,
                       value, installs, calls>>

\* The 'platform add' call ends; a successful one leaves platforms/<p> in
\* the project the toolchain ran in.
PlatformAddDone ==
    \E i \in DOMAIN chain, ok \in BOOLEAN :
        /\ chain[i].status = "call"
        /\ chain[i].call = "platformAdd"
        /\ dirs' = IF ok THEN dirs \cup {PlatformDir(chain[i].ev.where, chain[i].platform)}
                   ELSE dirs
        /\ SetChain([chain EXCEPT ![i].status = IF ok THEN "ok" ELSE "fail"])
        /\ log' = Append(log, [chain[i].ev EXCEPT !.kind = IF ok THEN "ok" ELSE "fail"])
        /\ UNCHANGED <<globals, modules, tacoJson, iosVersionFile, deviceApps, process,
                       op, cordovaPlatforms, args, inflight, value, installs, calls>>

\* cordova.raw.build(getCallArgs(platform, args)) is called (lines 105-107).
BuildIssue ==
    \E i \in DOMAIN chain :
        /\ chain[i].status = "queued"
        /\ chain[i].call = "build"
        /\ Ready(chain, i)
        /\ LET callArgs == getCallArgs(chain[i].platform, args)
               ev == Event("issue", "build", chain[i].platform, cwd,
                           callArgs.platforms, callArgs.options)
           IN  /\ SetChain([chain EXCEPT ![i].status = "call", ![i].ev = ev])
               /\ log' = Append(log, ev)
        /\ UNCHANGED <<globals, disk, process, op, cordovaPlatforms, args, inflight,
                       value, installs, calls>>

\* The build call ends.
BuildDone ==
    \E i \in DOMAIN chain, ok \in BOOLEAN :
        /\ chain[i].status = "call"
        /\ chain[i].call = "build"
        /\ SetChain([chain EXCEPT ![i].status = IF ok THEN "ok" ELSE "fail"])
        /\ log' = Append(log, [chain[i].ev EXCEPT !.kind = IF ok THEN "ok" ELSE "fail"])
        /\ UNCHANGED <<globals, disk, process, op, cordovaPlatforms, args, inflight,
                       value, installs, calls>>

\* ------------------------------------------------------------ actions: package
\* The i-th parameter of a JavaScript function called with the given
\* actual parameters: a parameter without an actual is undefined.
Param(actuals, i) == IF i <= Len(actuals) THEN actuals[i] ELSE ArgsUndefined

\* The callback of lines 133-143: one createIpa step per "ios" element;
\* the call of line 137 passes args as the only actual parameter.
RECURSIVE PackageChain(_, _)
PackageChain(platforms, a) ==
    IF platforms = <<>> THEN <<>>
    ELSE (IF Head(platforms) = "ios"
          THEN <<Step("createIpa", Head(platforms), <<a>>)>>
          ELSE <<>>) \o PackageChain(Tail(platforms), a)

\* String.replace(/\s/g, "") on the contents of a VERSION file.
StripWhitespace(content) == CHOOSE v \in IosVersions : VersionFile(v) = content

\* A version check that takes a project without VERSION file for an old
\* cordova-ios.
IosPlatformVersionAssumesOld(p) ==
    IF iosVersionFile[p] # Absent THEN StripWhitespace(iosVersionFile[p]) ELSE "3.8.0"

\* Lines 149-157: the installed cordova-ios version.
IosPlatformVersion(p) ==
    IF iosVersionFile[p] # Absent THEN StripWhitespace(iosVersionFile[p]) ELSE "4.0.0"

\* A device .app bundle of a project, as glob reports it, with path.dirname
\* and path.basename(m, ".app") of it.
DeviceDir(p) == p \o "/platforms/ios/build/device"
AppPath(p, name) == DeviceDir(p) \o "/" \o name \o ".app"

RECURSIVE AppendArgs(_, _)
AppendArgs(cmd, list) ==
    IF list = <<>> THEN cmd ELSE AppendArgs(cmd \o " " \o Head(list), Tail(list))

\* Lines 167-174: the packaging command for the one match.
PackageCommand(p, name, options) ==
    AppendArgs("xcrun -sdk iphoneos PackageApplication \"" \o AppPath(p, name)
                   \o "\" -o \"" \o PathJoin(DeviceDir(p), name) \o ".ipa\" ",
               options.list)

\* module.exports.packageProject(cordovaPlatforms, args), lines 128-133.
PackageProjectCall ==
    \E platforms \in PlatformLists, a \in ArgsValues :
        LET st == setupCordova(Cur, NoObj)
        IN  /\ CanCall
            /\ Commit(st)
            /\ AfterSetup("package", st, TRUE, <<>>)
            /\ cordovaPlatforms' = platforms
            /\ args' = a
            /\ calls' = calls + 1

\* The callback of packageProject (lines 133-143) builds the chain.
PackageThen ==
    /\ pc = "then"
    /\ op = "package"
    /\ SetChain(PackageChain(cordovaPlatforms, args))
    /\ log' = log \o SkipEvents("createIpa", cordovaPlatforms,
                        [p \in Platforms |-> p # "ios"])
    /\ UNCHANGED <<globals, disk, process, op, cordovaPlatforms, args, inflight,
                   value, installs, calls>>

\* createIpa is entered (lines 147-160, 189-192): the version check, then
\* the glob is started or the step resolves at once.
CreateIpaStart ==
    \E i \in DOMAIN chain :
        /\ chain[i].status = "queued"
        /\ chain[i].call = "createIpa"
        /\ Ready(chain, i)
        /\ IF SemverLt(IosPlatformVersion(projectPath), "3.9.0")
           THEN LET ev == Event("issue", "glob", DeviceDir(projectPath) \o "/*.app",
                                projectPath, <<>>, UndefOpts)
                IN  /\ SetChain([chain EXCEPT ![i].status = "glob", ![i].ev = ev])
                    /\ log' = Append(log, ev)
           ELSE \* return Q()
                /\ SetChain([chain EXCEPT ![i].status = "ok", ![i].val = Undefined])
                /\ log' = Append(log, Event("skip", "xcrun", "ios", "", <<>>, UndefOpts))
        /\ UNCHANGED <<globals, disk, process, op, cordovaPlatforms, args, inflight,
                       value, installs, calls>>

\* The glob callback runs (lines 160-187): an error rejects the deferred;
\* a match count other than one only logs a warning, and nothing is left
\* that settles the deferred; one match starts the packaging command with
\* the options of getCallArgs("ios", args), args being the second parameter
\* of createIpa (forEach on undefined options throws out of the callback).
GlobDone ==
    \E i \in DOMAIN chain, err \in BOOLEAN :
        LET matches == deviceApps[chain[i].ev.where]
            callArgs == getCallArgs("ios", Param(chain[i].actuals, 2))
            done == [chain[i].ev EXCEPT !.kind = IF err THEN "fail" ELSE "ok"]
            ev == Event("issue", "xcrun",
                        PackageCommand(chain[i].ev.where, CHOOSE m \in matches : TRUE,
                                       callArgs.options),
                        cwd, <<>>, callArgs.options)
        IN  /\ chain[i].status = "glob"
            /\ IF err
               THEN /\ SetChain([chain EXCEPT ![i].status = "fail"])
                    /\ log' = Append(log, done)
               ELSE IF Cardinality(matches) # 1 \/ ~callArgs.options.def
                    THEN /\ SetChain([chain EXCEPT ![i].status = "skipped"])
                         /\ log' = Append(log, done)
                    ELSE /\ SetChain([chain EXCEPT ![i].status = "xcrun", ![i].ev = ev])
                         /\ log' = Append(Append(log, done), ev)
            /\ UNCHANGED <<globals, disk, process, op, cordovaPlatforms, args, inflight,
                           value, installs, calls>>

\* A deferred whose state every resolve / reject call overwrites.
SettleLastCallWins(status, outcome) == outcome

\* deferred.resolve() / deferred.reject(err) (Q): the first call settles
\* the deferred, a call on a settled deferred does nothing.
Settle(status, outcome) == IF status \in {"ok", "fail"} THEN status ELSE outcome

\* Lines 177-184, exec(cmdString).then(handleExecReturn).fail(f).done(d):
\* when the command succeeds only d runs and resolves the deferred; when
\* it fails f rejects the deferred and returns, which fulfils the promise
\* done is called on, so d runs after it and calls deferred.resolve().
XcrunOutcome(status, ok) ==
    IF ok THEN Settle(status, "ok")
    ELSE Settle(Settle(status, "fail"), "ok")

\* The packaging command ends (lines 177-184).
XcrunDone ==
    \E i \in DOMAIN chain, ok \in BOOLEAN :
        /\ chain[i].status = "xcrun"
        /\ SetChain([chain EXCEPT
                        ![i].status = XcrunOutcome("xcrun", ok),
                        ![i].val = IF XcrunOutcome("xcrun", ok) = "ok"
                                   THEN Undefined ELSE "none"])
        /\ log' = Append(log, [chain[i].ev EXCEPT !.kind = IF ok THEN "ok" ELSE "fail"])
        /\ UNCHANGED <<globals, disk, process, op, cordovaPlatforms, args, inflight,
                       value, installs, calls>>

\* ------------------------------------------------------------ specifications
BuildObjs == {Obj(Undefined, "3.6.3", Undefined), Obj(Undefined, Undefined, ProjB)}

InitBuild ==
    InitIn({EmptyCache, FullCache}, {Absent}, {Undefined}, BOOLEAN,
           {{}, {"android"}}, {Absent}, {{}})

NextBuild ==
    \/ Configure(BuildObjs)
    \/ BuildProjectCall
    \/ InstallDone
    \/ PluginDone
    \/ BuildThen
    \/ PlatformAddIssue
    \/ PlatformAddDone
    \/ BuildIssue
    \/ BuildDone

SpecBuild == InitBuild /\ [][NextBuild]_vars

InitPackage ==
    InitIn({EmptyCache, FullCache}, {Absent}, {Undefined}, BOOLEAN, {{"ios"}},
           {Absent} \cup {VersionFile(v) : v \in IosVersions},
           {{}, {"App"}, {"App", "Other"}})

NextPackage ==
    \/ PackageProjectCall
    \/ InstallDone
    \/ PluginDone
    \/ PackageThen
    \/ CreateIpaStart
    \/ GlobDone
    \/ XcrunDone

SpecPackage == InitPackage /\ [][NextPackage]_vars

\* packageProject in a project whose toolchain is cached and loaded without
\* an install or a plugin call.
InitIpa ==
    InitIn({FullCache}, {Absent}, {Undefined}, {TRUE}, {{"ios"}},
           {Absent} \cup {VersionFile(v) : v \in IosVersions},
           {{}, {"App"}, {"App", "Other"}})

IpaProgress ==
    \/ PackageThen
    \/ CreateIpaStart
    \/ GlobDone
    \/ XcrunDone

NextIpa ==
    \/ PackageProjectCall
    \/ IpaProgress

SpecIpa == InitIpa /\ [][NextIpa]_vars

\* The event loop runs every ready callback, and every glob and every
\* external command ends.
FairIpa == SpecIpa /\ WF_vars(IpaProgress)

\* Every exported operation on a project with one old-style iOS app, with
\* 5.1.1 cached and 3.6.3 (taco.json) or 5.1.1 (default) as its version.
AllObjs == {Obj(Undefined, "3.6.3", Undefined), Obj(Undefined, "5.1.1", Undefined)}

InitAll ==
    InitIn({EmptyCache, PartialCache}, {Absent, "3.6.3"}, {Undefined}, BOOLEAN,
           {{}}, {VersionFile("3.8.0")}, {{"App"}})

NextAll ==
    \/ Configure(AllObjs)
    \/ SetupCordovaCall({NoObj})
    \/ BuildProjectCall
    \/ PackageProjectCall
    \/ InstallDone
    \/ PluginDone
    \/ BuildThen
    \/ PlatformAddIssue
    \/ PlatformAddDone
    \/ BuildIssue
    \/ BuildDone
    \/ PackageThen
    \/ CreateIpaStart
    \/ GlobDone
    \/ XcrunDone

SpecAll == InitAll /\ [][NextAll]_vars

\* ------------------------------------------------------------ properties: buildProject
ToolchainCalls == {"plugin", "platformAdd", "build"}
IsIssue(e, call) == e.kind = "issue" /\ e.call = call
BuildIssues == SelectSeq(log, LAMBDA e : IsIssue(e, "build"))

\* C1: a build call is issued only after every 'platform add' call of the
\* invocation has resolved successfully, and after the registration step of
\* its own platform (the call, or the skip) has resolved; no registration
\* event follows a build call.
C1_RegistrationBeforeBuild ==
    \A j \in DOMAIN log : IsIssue(log[j], "build") =>
        /\ \A k \in DOMAIN chain :
              chain[k].call = "platformAdd" => chain[k].status = "ok"
        /\ \A i \in DOMAIN log : log[i].call = "platformAdd" => i < j
        /\ \E i \in 1..(j - 1) :
              /\ log[i].call = "platformAdd"
              /\ log[i].target = log[j].target
              /\ log[i].kind \in {"ok", "skip"}

\* A build was issued after one platform was skipped as registered and
\* another was registered by a call.
C1_Witness ==
    \E i, j, k \in DOMAIN log :
        /\ log[i].kind = "skip" /\ log[i].call = "platformAdd"
        /\ log[j].kind = "ok" /\ log[j].call = "platformAdd"
        /\ IsIssue(log[k], "build")

\* C2: the build calls issued so far are, in input order, one per element
\* of the platform list, each with platforms = [p] and the options the
\* args give for p (the flat list itself, or args[p] of a mapping); a
\* resolved buildProject has issued one per element; no toolchain call is
\* issued while another is in flight.
C2_SequentialBuilds ==
    /\ Len(BuildIssues) <= Len(cordovaPlatforms)
    /\ \A i \in 1..Len(BuildIssues) :
          /\ BuildIssues[i].target = cordovaPlatforms[i]
          /\ BuildIssues[i].platforms = <<cordovaPlatforms[i]>>
          /\ args.type = "array" => BuildIssues[i].options = Opts(args.list)
          /\ args.type = "object" => BuildIssues[i].options = args.map[cordovaPlatforms[i]]
    /\ (op = "build" /\ result = "resolved") => Len(BuildIssues) = Len(cordovaPlatforms)
    /\ Cardinality({k \in DOMAIN chain : chain[k].status = "call"}) <= 1
    /\ \A i \in DOMAIN log :
          (log[i].kind = "issue" /\ log[i].call \in ToolchainCalls /\ i < Len(log)) =>
              /\ log[i + 1].kind \in {"ok", "fail"}
              /\ log[i + 1].call = log[i].call
              /\ log[i + 1].target = log[i].target

\* buildProject resolved for a list that names one platform twice, with a
\* per-platform mapping as args.
C2_Witness ==
    /\ op = "build"
    /\ result = "resolved"
    /\ Len(cordovaPlatforms) >= 2
    /\ cordovaPlatforms[1] = cordovaPlatforms[2]
    /\ cordovaPlatforms[1] = "ios"
    /\ args.type = "object"

\* C3: once a registration or build call has failed, no call is issued
\* after it and the promise of buildProject is rejected.
C3_FailureAborts ==
    \A i \in DOMAIN log :
        (log[i].kind = "fail" /\ log[i].call \in {"platformAdd", "build"}) =>
            /\ \A j \in DOMAIN log : j > i => log[j].kind # "issue"
            /\ op = "build"
            /\ result = "rejected"
            /\ pc = "idle"

\* A registration call failed while steps of the chain were still queued.
C3_Witness ==
    /\ \E i \in DOMAIN log : log[i].kind = "fail" /\ log[i].call = "platformAdd"
    /\ \E k \in DOMAIN chain : chain[k].status = "queued" /\ chain[k].call = "build"
    /\ \E k \in DOMAIN chain : chain[k].status = "queued" /\ chain[k].call = "platformAdd"
    /\ result = "rejected"

\* ------------------------------------------------------------ properties: packageProject
\* C4: below cordova-ios 3.9.0, a createIpa step whose glob callback found
\* zero or several .app bundles (and so only logged the skip warning)
\* eventually resolves successfully.
C4_SkipResolves ==
    \A i \in 1..(MaxPlatforms + 1) :
        (i \in DOMAIN chain /\ chain[i].status = "skipped")
            ~> (i \in DOMAIN chain /\ chain[i].status = "ok")

\* The options the caller supplied for ios: the flat list, or args['ios']
\* of a mapping.
SuppliedIosOptions ==
    IF args.type = "array" THEN args.list
    ELSE IF args.type = "object" THEN args.map["ios"].list
    ELSE <<>>

RECURSIVE JoinOptions(_)
JoinOptions(list) ==
    IF list = <<>> THEN "" ELSE " " \o Head(list) \o JoinOptions(Tail(list))

\* C10: with one matching bundle, the packaging command names the bundle
\* as input, the sibling .ipa as output, and ends with every option
\* supplied for ios, in order; one command is run per iOS step.
C10_PackageCommand ==
    /\ \A j \in DOMAIN log : IsIssue(log[j], "xcrun") =>
          \E app \in deviceApps[projectPath] :
              /\ deviceApps[projectPath] = {app}
              /\ log[j].target =
                    "xcrun -sdk iphoneos PackageApplication \""
                        \o projectPath \o "/platforms/ios/build/device/" \o app \o ".app"
                        \o "\" -o \""
                        \o projectPath \o "/platforms/ios/build/device/" \o app \o ".ipa"
                        \o "\" " \o JoinOptions(SuppliedIosOptions)
    /\ Len(SelectSeq(log, LAMBDA e : IsIssue(e, "xcrun")))
          <= Cardinality({k \in DOMAIN chain : chain[k].status \in {"xcrun", "ok", "fail"}})

\* ------------------------------------------------------------ properties: setupCordova
\* The package name the install is specified to use for a version.
SpecifiedPackage(v) == IF SemverLt(v, "3.7.0") THEN "cordova" ELSE "cordova-lib"

\* C5: the install command in flight is 'npm install <package>@<version>'
\* run in the version directory, <package> being cordova below 3.7.0 and
\* cordova-lib from 3.7.0 on, the package getCordova loads.
C5_InstallCommand ==
    pc = "install" =>
        /\ inflight.target = "npm install " \o SpecifiedPackage(cordovaVersion)
                                \o "@" \o cordovaVersion
        /\ inflight.where = PathJoin(cordovaCache, cordovaVersion)
        /\ SpecifiedPackage(cordovaVersion) = PackageOf(cordovaVersion)

\* C6: an install command for a version directory is run by exactly the
\* steps that find the directory absent and create it, directories are
\* never removed, and so no version directory sees a second install.
C6_InstallOnce ==
    /\ [](\A d \in AllVersionDirs :
            /\ installs[d] <= 1
            /\ installs[d] = 1 => d \in dirs)
    /\ [][\A d \in AllVersionDirs :
            /\ d \in dirs => d \in dirs'
            /\ IF d \notin dirs /\ d \in dirs'
               THEN installs'[d] = installs[d] + 1 /\ pc' = "install"
               ELSE installs'[d] = installs[d]]_vars

\* A later setupCordova call for a version whose install ran earlier in the
\* process (and left no loadable module) found the directory and ran no
\* command.
C6_Witness ==
    /\ op = "setup"
    /\ pc = "idle"
    /\ calls >= 2
    /\ cordovaVersion \in Versions
    /\ installs[VersionDir(cordovaCache, cordovaVersion)] = 1
    /\ log = <<>>
    /\ result = "thrown"

\* The version first match picks among the four sources.
FirstMatch(explicit, taco, envDefault) ==
    IF explicit # Undefined THEN explicit
    ELSE IF taco # Absent THEN (IF taco \in Versions THEN taco ELSE Undefined)
    ELSE IF Truthy(envDefault) THEN envDefault
    ELSE "5.1.1"

\* C7: a setupCordova call leaves as version the first match among the
\* configured version, the 'cordova-cli' field of an existing taco.json,
\* CORDOVA_DEFAULT_VERSION and 5.1.1, and always arrives at a version.
C7_VersionResolution ==
    [][(calls' = calls + 1 /\ op' = "setup") =>
          /\ cordovaVersion' = FirstMatch(cordovaVersion, tacoJson[projectPath],
                                          env.CORDOVA_DEFAULT_VERSION)
          /\ cordovaVersion' \in Versions]_vars

\* The handle require yields for a version, from either cache.
HandlesOf(v) == {Handle(c, v, PackageOf(v)) : c \in Caches}

\* C8: the stored handle was loaded from the cache entry of the stored
\* loaded version, and a handle setupCordova resolves with is the one of
\* the currently resolved version.
C8_HandleMatchesVersion ==
    /\ cdv # Undefined =>
          /\ loadedCordovaVersion \in Versions
          /\ cdv \in HandlesOf(loadedCordovaVersion)
    /\ (op = "setup" /\ result = "resolved") =>
          /\ cordovaVersion \in Versions
          /\ value \in HandlesOf(cordovaVersion)

\* C9: setupCordova resolves only when the support plugin is under the
\* current project's plugins directory or its installation, requested in
\* this call, has completed successfully.
C9_PluginPresent ==
    (op = "setup" /\ result = "resolved") =>
        \/ PluginDir(projectPath) \in dirs
        \/ \E i \in DOMAIN log : log[i].kind = "ok" /\ log[i].call = "plugin"

\* ------------------------------------------------------------ properties: packageProject
\* The number of elements of a list equal to x.
Count(list, x) == Cardinality({k \in DOMAIN list : list[k] = x})
PackagingEvents == SelectSeq(log, LAMBDA e : e.call \in {"glob", "xcrun"} /\ e.kind = "issue")

\* C11: packageProject has a packaging step for the "ios" elements of the
\* platform set only, and when the project's cordova-ios VERSION file says
\* 3.9.0 or more, or is absent, a step starts neither a glob nor a command:
\* it is never suspended and goes from queued to resolved at once.
C11_NoCommandWithoutNeed ==
    op = "package" =>
        /\ \A k \in DOMAIN chain :
              chain[k].call = "createIpa" /\ chain[k].platform = "ios"
        /\ Len(chain) <= Count(cordovaPlatforms, "ios")
        /\ Len(SelectSeq(log, LAMBDA e : IsIssue(e, "glob"))) <= Count(cordovaPlatforms, "ios")
        /\ Len(SelectSeq(log, LAMBDA e : IsIssue(e, "xcrun"))) <= Count(cordovaPlatforms, "ios")
        /\ iosVersionFile[projectPath] \in {Absent, VersionFile("3.9.0"), VersionFile("4.0.0")} =>
              /\ PackagingEvents = <<>>
              /\ \A k \in DOMAIN chain : chain[k].status \in {"queued", "ok"}

\* packageProject of a list with a non-iOS and an iOS platform completed in
\* a project without VERSION file, without any glob or packaging command.
C11_Witness ==
    /\ op = "package"
    /\ result = "resolved"
    /\ Count(cordovaPlatforms, "android") >= 1
    /\ Count(cordovaPlatforms, "ios") >= 1
    /\ iosVersionFile[projectPath] = Absent
    /\ chain # <<>>
    /\ \A k \in DOMAIN chain : chain[k].status = "ok"
    /\ PackagingEvents = <<>>

XcrunEnds == SelectSeq(log, LAMBDA e : e.call = "xcrun" /\ e.kind \in {"ok", "fail"})

\* C12: a failed packaging command leaves its step and the promise of
\* packageProject rejected with nothing started after it, a successful one
\* leaves the step fulfilled with undefined, and a settled step stays as
\* it was settled for the rest of the call.  (Steps run in order and each
\* runs one command, so the n-th command that ended is the one of step n.)
C12_PackagingFailureRejects ==
    /\ [](\A n \in DOMAIN XcrunEnds :
            /\ n \in DOMAIN chain
            /\ IF XcrunEnds[n].kind = "fail"
               THEN /\ chain[n].status = "fail"
                    /\ result = "rejected"
                    /\ pc = "idle"
                    /\ log[Len(log)] = XcrunEnds[n]
                    /\ \A k \in (n + 1)..Len(chain) : chain[k].status = "queued"
               ELSE /\ chain[n].status = "ok"
                    /\ chain[n].val = Undefined)
    /\ [][\A i \in DOMAIN chain :
            (chain[i].status \in {"ok", "fail"} /\ calls' = calls) =>
                /\ i \in DOMAIN chain'
                /\ chain'[i].status = chain[i].status
                /\ chain'[i].val = chain[i].val]_vars

\* The packaging command of the first of two iOS steps failed:
\* packageProject is rejected and the second step was never started.
C12_Witness ==
    /\ op = "package"
    /\ result = "rejected"
    /\ Len(chain) = 2
    /\ chain[1].status = "fail"
    /\ chain[1].ev.call = "xcrun"
    /\ chain[2].status = "queued"
    /\ log[Len(log)].kind = "fail"
    /\ log[Len(log)].call = "xcrun"
\* ------------------------------------------------------------ properties: failures of setup
\* C13: a failed install command is the last thing its call does: the
\* promise of setupCordova / buildProject / packageProject is rejected, no
\* module is loaded (handle, loaded version, working directory and
\* environment stay as they were), no plugin installation and no platform
\* registration, build or packaging call is issued.
C13_InstallFailureAborts ==
    /\ [](\A j \in DOMAIN log :
            (log[j].call = "exec" /\ log[j].kind = "fail") =>
                /\ j = Len(log)
                /\ result = "rejected"
                /\ pc = "idle"
                /\ chain = <<>>
                /\ \A i \in DOMAIN log : log[i].call = "exec")
    /\ [][(pc = "install" /\ log' # <<>> /\ log'[Len(log')].call = "exec"
             /\ log'[Len(log')].kind = "fail") =>
                /\ UNCHANGED <<globals, disk, process>>
                /\ chain' = <<>>]_vars

\* The install of a buildProject call for platforms failed.
C13_Witness ==
    /\ op \in {"build", "package"}
    /\ cordovaPlatforms # <<>>
    /\ result = "rejected"
    /\ log # <<>>
    /\ log[Len(log)].call = "exec"
    /\ log[Len(log)].kind = "fail"
    /\ cdv = Undefined
    /\ loadedCordovaVersion = Undefined
\* ------------------------------------------------------------ properties: configuration
\* What a synchronous run left of the state it started in.
Effects(st) ==
    [dirs |-> st.dirs, modules |-> st.modules, cdv |-> st.cdv,
     loadedCordovaVersion |-> st.loadedCordovaVersion, cwd |-> st.cwd,
     env |-> st.env, cmd |-> st.cmd]

\* C14: in every reachable state, configure and setupCordova given an
\* options object whose projectPath does not exist throw, having created no
\* directory, started no command, loaded no module and changed neither the
\* working directory nor the environment.
C14_MissingProjectFailsSync ==
    \A o \in ConfigObjs :
        (o.projectPath # Undefined /\ PathResolve(o.projectPath) \notin dirs) =>
            /\ configure(Cur, o).out = "throw"
            /\ setupCordova(Cur, o).out = "throw"
            /\ Effects(configure(Cur, o)) = Effects(Cur)
            /\ Effects(setupCordova(Cur, o)) = Effects(Cur)

\* A first call, setupCordova with options naming the nonexistent project,
\* has thrown and left the disk and the process as they were.
C14_Witness ==
    /\ op = "setup"
    /\ calls = 1
    /\ result = "thrown"
    /\ projectPath = Missing
    /\ log = <<>>
    /\ cdv = Undefined
    /\ cwd = ProjA

\* C15: the stored project root references an existing directory.
C15_ProjectRootExists == projectPath \in dirs
\* A step that loaded a handle: the handle changed, or the loaded version
\* changed and the handle is the one of the current cache and version.
LoadStep ==
    /\ cdv' # Undefined
    /\ \/ cdv' # cdv
       \/ /\ loadedCordovaVersion' # loadedCordovaVersion
          /\ cdv' = Handle(cordovaCache', cordovaVersion', PackageOf(cordovaVersion'))

\* C16 as amended: after every load of a handle, CORDOVA_HOME and
\* PLUGMAN_HOME are the subdirectories '_cordova' and '_plugman' of the
\* cache directory configured at the time of the load.
C16_SubCacheEnv ==
    [][LoadStep =>
          /\ env'.CORDOVA_HOME = cordovaCache' \o "/_cordova"
          /\ env'.PLUGMAN_HOME = cordovaCache' \o "/_plugman"]_vars

\* C16 as stated: after every load of a handle, the two variables are the
\* subdirectories '_cordovaPlatformCache' and '_pluginCache' of the cache
\* directory configured at the time of the load.
C16_SubCacheEnvAsStated ==
    [][LoadStep =>
          /\ env'.CORDOVA_HOME = cordovaCache' \o "/_cordovaPlatformCache"
          /\ env'.PLUGMAN_HOME = cordovaCache' \o "/_pluginCache"]_vars

\* After the cache directory was reconfigured, a handle was loaded from the
\* second cache and the environment points into the second cache.
C16_Witness ==
    /\ cdv = Handle(CacheB, "5.1.1", CORDOVA_LIB)
    /\ cordovaCache = CacheB
    /\ calls >= 3
    /\ env.CORDOVA_HOME = "/cacheB/_cordova"
    /\ env.PLUGMAN_HOME = "/cacheB/_plugman"

\* C19: in every reachable state with a handle loaded for the resolved
\* version, setupCordova without options returns the handle and leaves
\* everything it could touch as it was: the globals, the directories, the
\* modules, the working directory, the environment, no command.
C19_LoadedSetupIsNoOp ==
    (Truthy(cdv) /\ cordovaVersion = loadedCordovaVersion) =>
        setupCordova(Cur, NoObj) = [Cur EXCEPT !.out = "resolved", !.value = cdv]

\* setupCordova without options was called with the handle loaded, after
\* the cache directory was reconfigured to one that does not exist, and
\* returned the handle without creating it.
C19_Witness ==
    /\ op = "setup"
    /\ result = "resolved"
    /\ calls >= 3
    /\ log = <<>>
    /\ value = cdv
    /\ cordovaVersion = loadedCordovaVersion
    /\ cordovaCache = CacheB
    /\ CacheB \notin dirs
\* ------------------------------------------------------------ properties: registration
\* C17: a 'platform add' call is in flight only for a platform whose
\* marker directory platforms/<p> of the project does not exist, and one
\* buildProject call issues at most one 'platform add' call per platform.
C17_RegisterOnlyUnregistered ==
    /\ \A k \in DOMAIN chain :
          (chain[k].call = "platformAdd" /\ chain[k].status = "call") =>
              PlatformDir(projectPath, chain[k].platform) \notin dirs
    /\ \A p \in Platforms :
          Len(SelectSeq(log, LAMBDA e : IsIssue(e, "platformAdd") /\ e.target = p)) <= 1
====
